---- MODULE Spec2Model ----
(***************************************************************************)
(* A model of main.py, the FastAPI proxy in front of Azure DevOps.         *)
(*                                                                         *)
(* Scalar Python values are sequences of integers, so that an Optional[str] *)
(* or a JSON value of either type is one kind of TLA+ value: a str is the   *)
(* sequence of its Unicode code points, a bytes object the sequence of its  *)
(* bytes, None is << -1 >>, an int n is << -3, n >>, and the outcome of an  *)
(* expression that raised is << -2 >>.  A literal is written as a tuple of  *)
(* one-character strings and turned into code points by Str.                *)
(***************************************************************************)
EXTENDS Integers, Sequences, FiniteSets, TLC

None == << -1 >>
Raise == << -2 >>
PyInt(n) == << -3, n >>

(***************************************************************************)
(* Characters and literals                                                 *)
(***************************************************************************)
\* The printable ASCII characters in code-point order, from 32 to 126 (the
\* grave accent, code 96, is spelled out).
Ascii ==
  << " ", "!", "\"", "#", "$", "%", "&", "'", "(", ")", "*", "+", ",", "-", ".", "/",
     "0", "1", "2", "3", "4", "5", "6", "7", "8", "9", ":", ";", "<", "=", ">", "?",
     "@", "A", "B", "C", "D", "E", "F", "G", "H", "I", "J", "K", "L", "M", "N", "O",
     "P", "Q", "R", "S", "T", "U", "V", "W", "X", "Y", "Z", "[", "\\", "]", "^", "_",
     "GRAVE", "a", "b", "c", "d", "e", "f", "g", "h", "i", "j", "k", "l", "m", "n", "o",
     "p", "q", "r", "s", "t", "u", "v", "w", "x", "y", "z", "{", "|", "}", "~" >>

\* ord(c) of a printable ASCII character; "\n" is 10 and "e'" (U+00E9) is 233.
Ord(c) ==
  IF c = "\n" THEN 10
  ELSE IF c = "e'" THEN 233
  ELSE 31 + (CHOOSE i \in 1..Len(Ascii) : Ascii[i] = c)

\* The Python string whose characters are the elements of the tuple t.
Str(t) == [i \in 1..Len(t) |-> Ord(t[i])]

(***************************************************************************)
(* str methods                                                             *)
(***************************************************************************)
\* s.startswith(p)
StartsWith(s, p) == Len(s) >= Len(p) /\ SubSeq(s, 1, Len(p)) = p

\* s.find(sub, from): the least position >= from where sub occurs in s, 0 when
\* there is none (positions count from 1).
Find(s, sub, from) ==
  LET hits == { i \in from..(Len(s) - Len(sub) + 1) : SubSeq(s, i, i + Len(sub) - 1) = sub }
  IN  IF hits = {} THEN 0 ELSE CHOOSE i \in hits : \A j \in hits : i <= j

\* sub in s
Contains(s, sub) == Find(s, sub, 1) # 0

\* s.split(sep) for a non-empty sep: cut at the occurrences of sep found from
\* left to right without overlap.
RECURSIVE Split(_, _)
Split(s, sep) ==
  LET i == Find(s, sep, 1)
  IN  IF i = 0 THEN << s >>
      ELSE << SubSeq(s, 1, i - 1) >> \o Split(SubSeq(s, i + Len(sep), Len(s)), sep)

\* s.replace(old, new) for a non-empty old: every occurrence found from left
\* to right without overlap is replaced.
RECURSIVE Replace(_, _, _)
Replace(s, old, new) ==
  LET i == Find(s, old, 1)
  IN  IF i = 0 THEN s
      ELSE SubSeq(s, 1, i - 1) \o new \o Replace(SubSeq(s, i + Len(old), Len(s)), old, new)

\* sep.join(parts)
RECURSIVE Join(_, _)
Join(parts, sep) ==
  IF parts = << >> THEN << >>
  ELSE IF Len(parts) = 1 THEN parts[1]
  ELSE parts[1] \o sep \o Join(Tail(parts), sep)

\* The ASCII whitespace str.strip() removes: space, \t, \n, \v, \f, \r and
\* the separators 28..31.
IsSpace(c) == c = 32 \/ (c >= 9 /\ c <= 13) \/ (c >= 28 /\ c <= 31)

\* s.strip()
RECURSIVE Strip(_)
Strip(s) ==
  IF s = << >> THEN s
  ELSE IF IsSpace(s[1]) THEN Strip(Tail(s))
  ELSE IF IsSpace(s[Len(s)]) THEN Strip(SubSeq(s, 1, Len(s) - 1))
  ELSE s

\* s < t for two strings: lexicographic by code point, a proper prefix first.
RECURSIVE StrLess(_, _)
StrLess(s, t) ==
  IF t = << >> THEN FALSE
  ELSE IF s = << >> THEN TRUE
  ELSE IF s[1] # t[1] THEN s[1] < t[1]
  ELSE StrLess(Tail(s), Tail(t))

\* sorted(list(S), reverse=True): the order turned round.
RECURSIVE Sorted_Reversed(_)
Sorted_Reversed(S) ==
  IF S = {} THEN << >>
  ELSE LET m == CHOOSE x \in S : \A y \in S \ {x} : StrLess(y, x)
       IN  << m >> \o Sorted_Reversed(S \ {m})

\* sorted(list(S)) for a set S of strings.
RECURSIVE Sorted(_)
Sorted(S) ==
  IF S = {} THEN << >>
  ELSE LET m == CHOOSE x \in S : \A y \in S \ {x} : StrLess(x, y)
       IN  << m >> \o Sorted(S \ {m})

(***************************************************************************)
(* base64 and UTF-8                                                        *)
(***************************************************************************)
\* The base64 alphabet as code points: A-Z, a-z, 0-9, + and /.
B64Alphabet ==
  [i \in 1..64 |-> IF i <= 26 THEN 64 + i
                   ELSE IF i <= 52 THEN 96 + (i - 26)
                   ELSE IF i <= 62 THEN 47 + (i - 52)
                   ELSE IF i = 63 THEN 43 ELSE 47]

B64Pad == 61

\* str.encode('utf-8') for code points below 0x10000 outside the surrogates.
RECURSIVE Utf8Encode(_)
Utf8Encode(s) ==
  IF s = << >> THEN << >>
  ELSE LET c == s[1]
           b == IF c < 128 THEN << c >>
                ELSE IF c < 2048 THEN << 192 + (c \div 64), 128 + (c % 64) >>
                ELSE << 224 + (c \div 4096), 128 + ((c \div 64) % 64), 128 + (c % 64) >>
       IN  b \o Utf8Encode(Tail(s))

IsCont(b) == b >= 128 /\ b <= 191

\* bytes.decode() (UTF-8, errors='strict'): the string, or Raise for an
\* invalid start byte, a missing or invalid continuation byte, an overlong
\* form or a surrogate.  Four-byte forms (lead bytes 0xF0..0xF4) are outside
\* the inputs of the model and raise here.
RECURSIVE Utf8Decode(_)
Utf8Decode(b) ==
  IF b = << >> THEN << >>
  ELSE
    LET c == b[1]
        n == IF c < 128 THEN 1
             ELSE IF c >= 194 /\ c <= 223 THEN 2
             ELSE IF c >= 224 /\ c <= 239 THEN 3
             ELSE 0
        ok == /\ n # 0
              /\ Len(b) >= n
              /\ \A k \in 2..n : IsCont(b[k])
              /\ (c = 224 => b[2] >= 160)
              /\ (c = 237 => b[2] <= 159)
        cp == IF n = 1 THEN c
              ELSE IF n = 2 THEN (c - 192) * 64 + (b[2] - 128)
              ELSE (c - 224) * 4096 + (b[2] - 128) * 64 + (b[3] - 128)
    IN  IF ~ok THEN Raise
        ELSE LET rest == Utf8Decode(SubSeq(b, n + 1, Len(b)))
             IN  IF rest = Raise THEN Raise ELSE << cp >> \o rest

\* The 6-bit value of a base64 character, 64 for any other character.
B64Value(c) ==
  IF \E i \in 1..64 : B64Alphabet[i] = c
  THEN (CHOOSE i \in 1..64 : B64Alphabet[i] = c) - 1
  ELSE 64

\* base64.b64encode(b) as a string.
RECURSIVE b64encode(_)
b64encode(b) ==
  IF b = << >> THEN << >>
  ELSE IF Len(b) = 1 THEN
    << B64Alphabet[(b[1] \div 4) + 1], B64Alphabet[(b[1] % 4) * 16 + 1], B64Pad, B64Pad >>
  ELSE IF Len(b) = 2 THEN
    << B64Alphabet[(b[1] \div 4) + 1],
       B64Alphabet[(b[1] % 4) * 16 + (b[2] \div 16) + 1],
       B64Alphabet[(b[2] % 16) * 4 + 1], B64Pad >>
  ELSE
    << B64Alphabet[(b[1] \div 4) + 1],
       B64Alphabet[(b[1] % 4) * 16 + (b[2] \div 16) + 1],
       B64Alphabet[(b[2] % 16) * 4 + (b[3] \div 64) + 1],
       B64Alphabet[(b[3] % 64) + 1] >> \o b64encode(SubSeq(b, 4, Len(b)))

\* binascii.a2b_base64 without strict mode, as base64.b64decode(s) runs it:
\* a scan with the position in the current quad, the bits left over, the count
\* of pad characters seen in a row and the bytes produced.  A character
\* outside the alphabet is skipped; a pad that completes the quad ends the
\* scan; leftover characters at the end raise binascii.Error.
RECURSIVE A2bScan(_, _, _, _, _)
A2bScan(s, quad_pos, leftchar, pads, out) ==
  IF s = << >> THEN (IF quad_pos # 0 THEN Raise ELSE out)
  ELSE
    LET this_ch == s[1]
        v == B64Value(this_ch)
    IN  IF this_ch = B64Pad THEN
          IF quad_pos >= 2 /\ quad_pos + pads + 1 >= 4 THEN out
          ELSE A2bScan(Tail(s), quad_pos, leftchar,
                       IF quad_pos >= 2 THEN pads + 1 ELSE pads, out)
        ELSE IF v >= 64 THEN A2bScan(Tail(s), quad_pos, leftchar, pads, out)
        ELSE IF quad_pos = 0 THEN A2bScan(Tail(s), 1, v, 0, out)
        ELSE IF quad_pos = 1 THEN
          A2bScan(Tail(s), 2, v % 16, 0, Append(out, leftchar * 4 + (v \div 16)))
        ELSE IF quad_pos = 2 THEN
          A2bScan(Tail(s), 3, v % 4, 0, Append(out, leftchar * 16 + (v \div 4)))
        ELSE A2bScan(Tail(s), 0, 0, 0, Append(out, leftchar * 64 + v))

\* base64.b64decode(s) for a str s: a non-ASCII character raises ValueError,
\* otherwise the bytes of the scan.
b64decode(s) ==
  IF \E i \in 1..Len(s) : s[i] >= 128 THEN Raise
  ELSE A2bScan(s, 0, 0, 0, << >>)

(***************************************************************************)
(* Static configuration (the fallbacks main.py uses when config.yaml has   *)
(* no azure_devops section)                                                *)
(***************************************************************************)
AZURE_DEVOPS_ORG == Str(<< "y","o","u","r","-","o","r","g" >>)
AZURE_DEVOPS_PROJECT == Str(<< "Y","o","u","r","P","r","o","j","e","c","t" >>)
AZURE_ACCESS_TOKEN == Str(<< "y","o","u","r","-","p","a","t","-","t","o","k","e","n" >>)
BASE_URL == Str(<< "h","t","t","p","s",":","/","/","y","o","u","r","-","o","r","g",".",
                   "v","i","s","u","a","l","s","t","u","d","i","o",".","c","o","m" >>)

\* Python truthiness of an Optional[str]: None and "" are false.
Truthy(x) == x # None /\ x # << >>

\* x or y
Or(x, y) == IF Truthy(x) THEN x ELSE y

BasicPrefix == Str(<< "B","a","s","i","c"," " >>)
Colon == Str(<< ":" >>)

(***************************************************************************)
(* get_auth_header and get_azure_config_from_headers                       *)
(***************************************************************************)
\* f"Basic {token}" with token the base64 of ":" + token_to_use in UTF-8.
\* get_auth_header(access_token): the headers dict with the Basic credential
\* of the token, or of AZURE_ACCESS_TOKEN when the token is None or empty.
BasicCredential(token_to_use) ==
  LET auth_string == Colon \o token_to_use
      token == b64encode(Utf8Encode(auth_string))
  IN  BasicPrefix \o token

get_auth_header(access_token) ==
  LET token_to_use == Or(access_token, AZURE_ACCESS_TOKEN)
  IN  [Authorization |-> BasicCredential(token_to_use)]

\* ExtractToken with the slice decoded[1:] forgotten: the ":" stays in front.
ExtractToken_KeepsColon(authorization) ==
  IF Truthy(authorization) /\ StartsWith(authorization, BasicPrefix)
  THEN LET raw == b64decode(SubSeq(authorization, 7, Len(authorization)))
           decoded == IF raw = Raise THEN Raise ELSE Utf8Decode(raw)
       IN  IF decoded = Raise THEN None
           ELSE IF StartsWith(decoded, Colon) THEN decoded
           ELSE None
  ELSE None

\* ExtractToken without the test decoded.startswith(':'): the first character
\* is dropped whatever it is.
ExtractToken_NoColonTest(authorization) ==
  IF Truthy(authorization) /\ StartsWith(authorization, BasicPrefix)
  THEN LET raw == b64decode(SubSeq(authorization, 7, Len(authorization)))
           decoded == IF raw = Raise THEN Raise ELSE Utf8Decode(raw)
       IN  IF decoded = Raise THEN None
           ELSE IF decoded # << >> THEN Tail(decoded)
           ELSE None
  ELSE None

\* The token the Authorization header carries: authorization[6:] decoded from
\* base64 and UTF-8, without its leading ":"; None when the header is absent,
\* has another scheme, does not decode (the bare except) or has no leading ":".
ExtractToken(authorization) ==
  IF Truthy(authorization) /\ StartsWith(authorization, BasicPrefix)
  THEN LET raw == b64decode(SubSeq(authorization, 7, Len(authorization)))
           decoded == IF raw = Raise THEN Raise ELSE Utf8Decode(raw)
       IN  IF decoded = Raise THEN None
           ELSE IF StartsWith(decoded, Colon) THEN Tail(decoded)
           ELSE None
  ELSE None

get_azure_config_from_headers(x_azure_organization, x_azure_project, x_azure_baseurl, authorization) ==
  LET access_token == ExtractToken(authorization)
  IN  [organization |-> Or(x_azure_organization, AZURE_DEVOPS_ORG),
       project      |-> Or(x_azure_project, AZURE_DEVOPS_PROJECT),
       base_url     |-> Or(x_azure_baseurl, BASE_URL),
       access_token |-> Or(access_token, AZURE_ACCESS_TOKEN)]

(***************************************************************************)
(* State                                                                   *)
(***************************************************************************)
VARIABLES
  pc,              \* where the handler of the request is suspended
  request,         \* the inbound request: endpoint, parameters, headers, body
  azure_config,    \* the connection settings resolved for the request
  inflight,        \* the upstream call awaited, or None
  awaited,         \* the upstream call last answered, with its answer
  response,        \* the response sent to the client, or None
  work_item_ids,   \* the IDs the handler works on
  single_idx,      \* /work-item-details: position of single_id in work_item_ids
  all_work_items,  \* /work-item-details: the records collected so far
  work_item,       \* /work-item-details: the detail payload of single_id
  comments,        \* /work-item-details: the comments shaped for single_id
  child_ids        \* /work-item-details: the child IDs extracted for single_id

vars == << pc, request, azure_config, inflight, awaited, response, work_item_ids,
           single_idx, all_work_items, work_item, comments, child_ids >>

\* The values of the variables that hold a record before they are assigned.
NoConfig == [organization |-> None, project |-> None, base_url |-> None, access_token |-> None]
NoCall == [op |-> "none"]
NoAnswer == [call |-> NoCall]
NoResponse == [status_code |-> 0]
NoWorkItem == [absent |-> TRUE]

handlerLocals == << work_item_ids, single_idx, all_work_items, work_item, comments, child_ids >>

(***************************************************************************)
(* Bounds and input sets                                                   *)
(***************************************************************************)
\* Longest byte string encoded into an Authorization payload.
MaxDecodedLen == 3

\* The bytes of ":", "a" and of U+00E9 in UTF-8 (0xC3 0xA9); 0xC3 and 0xA9
\* out of place make a payload that is not UTF-8.
PayloadBytes == {58, 97, 195, 169}

BytesUpTo(n) == UNION { [1..k -> PayloadBytes] : k \in 0..n }

\* Tokens T with ":" + T no longer than MaxDecodedLen bytes.
Tokens == { Utf8Decode(b) : b \in BytesUpTo(MaxDecodedLen - 1) } \ {Raise}

\* Authorization payloads: the base64 of every byte string, the same with its
\* last character cut off, and the same followed by a non-ASCII character.
AuthPayloads ==
  LET enc == { b64encode(b) : b \in BytesUpTo(MaxDecodedLen) }
  IN  enc \cup { SubSeq(e, 1, Len(e) - 1) : e \in enc \ {<< >>} }
          \cup { Append(e, 233) : e \in enc }

AuthSchemes == { BasicPrefix, Str(<< "b","a","s","i","c"," " >>),
                 Str(<< "B","e","a","r","e","r"," " >>) }

AuthHeaders == {None, << >>} \cup { sch \o p : sch \in AuthSchemes, p \in AuthPayloads }

\* Values of an X-Azure-* override header: absent, empty, or set.
Overrides == { None, << >>, Str(<< "o" >>) }

(***************************************************************************)
(* The config resolver on its own                                          *)
(***************************************************************************)
InitConfig ==
  /\ pc = "config_call"
  /\ request \in [ x_azure_organization : Overrides,
                   x_azure_project      : {None, Str(<< "p" >>)},
                   x_azure_baseurl      : {None, Str(<< "u" >>)},
                   authorization        : AuthHeaders ]
  /\ azure_config = NoConfig
  /\ inflight = NoCall
  /\ awaited = NoAnswer
  /\ response = NoResponse
  /\ work_item_ids = << >>
  /\ single_idx = 0
  /\ all_work_items = << >>
  /\ work_item = NoWorkItem
  /\ comments = << >>
  /\ child_ids = << >>

\* One call of get_azure_config_from_headers with the request's headers.
ResolveConfig ==
  /\ pc = "config_call"
  /\ azure_config' = get_azure_config_from_headers(
                        request.x_azure_organization, request.x_azure_project,
                        request.x_azure_baseurl, request.authorization)
  /\ pc' = "config_returned"
  /\ UNCHANGED << request, inflight, awaited, response, handlerLocals >>

NextConfig == ResolveConfig

SpecConfig == InitConfig /\ [][NextConfig]_vars

(***************************************************************************)
(* The upstream service                                                    *)
(***************************************************************************)
\* A key that is missing from a JSON object (dict.get returns its default).
Missing == << -4 >>

\* dict.get(key, default) for the value v stored under key, Missing if none.
Get(v, default) == IF v = Missing THEN default ELSE v

\* A JSON body that does not parse, or lacks a key the handler subscripts.
Malformed == [malformed |-> TRUE]
NoFields == [missing |-> TRUE]

\* str(n) of a natural number.
RECURSIVE DecStr(_)
DecStr(n) == IF n < 10 THEN << 48 + n >> ELSE DecStr(n \div 10) \o << 48 + (n % 10) >>

\* int(s) for a string of decimal digits.
RECURSIVE DecInt(_)
DecInt(s) == IF s = << >> THEN 0 ELSE DecInt(SubSeq(s, 1, Len(s) - 1)) * 10 + (s[Len(s)] - 48)

IsDigits(s) == s # << >> /\ \A i \in 1..Len(s) : s[i] >= 48 /\ s[i] <= 57

\* Response.is_success, which raise_for_status() tests.
IsSuccess(status_code) == status_code >= 200 /\ status_code <= 299

\* Status codes the upstream answers with.
SuccessCodes == {200, 201}
FailureCodes == {302, 400, 401, 404, 500}

\* The text of a failure response, and str(e) of the exceptions met.
ErrText == Str(<< "d","e","n","i","e","d" >>)
ConnectErrorStr == Str(<< "c","o","n","n","e","c","t" >>)
KeyErrorStr == Str(<< "k","e","y" >>)

\* An answer to an upstream call: a response, or a transport failure raised
\* by the client (httpx.RequestError).
HttpAnswer(code, json, text) == [kind |-> "response", status_code |-> code, json |-> json, text |-> text]
TransportError == [kind |-> "error", status_code |-> 0, json |-> Malformed, text |-> ConnectErrorStr]

FailureAnswers == { HttpAnswer(c, Malformed, ErrText) : c \in FailureCodes } \cup {TransportError}

\* What `await client.get/post(...)` followed by raise_for_status() raises for
\* an answer: the transport error, an HTTPStatusError, or nothing.
NoException == [type |-> "none", status_code |-> 0, text |-> << >>]
HTTPStatusError(ans) == [type |-> "HTTPStatusError", status_code |-> ans.status_code, text |-> ans.text]
RequestError == [type |-> "RequestError", status_code |-> 0, text |-> ConnectErrorStr]
KeyError == [type |-> "KeyError", status_code |-> 0, text |-> KeyErrorStr]

\* str(e): the message of an HTTPStatusError names the status code.
ExcStr(e) == IF e.type = "HTTPStatusError" THEN DecStr(e.status_code) ELSE e.text

raise_for_status(ans) ==
  IF ans.kind = "error" THEN RequestError
  ELSE IF IsSuccess(ans.status_code) THEN NoException
  ELSE HTTPStatusError(ans)

\* HTTPException(status_code, detail) and a returned body, as sent to the client.
HTTPException(status_code, detail) == [status_code |-> status_code, error |-> TRUE, detail |-> detail]
Returned(body) == [status_code |-> 200, error |-> FALSE, body |-> body]

ApiErrorPrefix == Str(<< "A","z","u","r","e"," ","D","e","v","O","p","s"," ","A","P","I"," ",
                         "e","r","r","o","r",":"," " >>)
InternalErrorPrefix == Str(<< "I","n","t","e","r","n","a","l"," ","s","e","r","v","e","r"," ",
                              "e","r","r","o","r",":"," " >>)

\* The two except clauses that close /work-items, /work-item-details and
\* /my-iterations: an HTTPStatusError keeps the upstream status, any other
\* exception becomes a 500.
EndpointError(e) ==
  IF e.type = "HTTPStatusError"
  THEN HTTPException(e.status_code, ApiErrorPrefix \o e.text)
  ELSE HTTPException(500, InternalErrorPrefix \o ExcStr(e))

(***************************************************************************)
(* Inputs of the endpoints                                                 *)
(***************************************************************************)
\* Most work items a WIQL query returns.
MaxItems == 3

Backslash == Str(<< "\\" >>)
Active == Str(<< "A","c","t","i","v","e" >>)

\* System.IterationPath values of the upstream work items.
IterationPaths ==
  { << >>, Str(<< "B" >>), Str(<< "A" >>), Str(<< "A","\\","B" >>),
    Str(<< "A","\\","A","c","t","i","v","e" >>) }

\* Values of the iteration query parameter of /work-items.
IterationParams == { << >>, Str(<< "A" >>), Str(<< "A","\\","B" >>), Str(<< "\\","B","A" >>) }

Assignees == { Str(<< "u" >>) }

\* Authorization headers of the requests to the GET endpoints.
RequestAuthHeaders == { None, BasicCredential(Str(<< "a" >>)) }

\* The answers to a WIQL query: the IDs 1..n, a body without "workItems", a
\* failure.
WiqlAnswers ==
  { HttpAnswer(c, [workItems |-> [i \in 1..n |-> [id |-> PyInt(i)]]], << >>) :
      c \in SuccessCodes, n \in 0..MaxItems }
  \cup { HttpAnswer(c, Malformed, << >>) : c \in SuccessCodes }
  \cup FailureAnswers

\* The "fields" of a work item in a batch answer: with or without an
\* iteration path, or no "fields" at all.
ItemFields == { [IterationPath |-> p] : p \in IterationPaths \cup {Missing} } \cup {NoFields}

\* The answers to the batch fetch of the IDs in ids: one item per ID in the
\* order asked, a body without "value", a failure.
BatchAnswers(ids) ==
  { HttpAnswer(c, [value |-> [i \in 1..Len(ids) |-> [id |-> ids[i], fields |-> fs[i]]]], << >>) :
      c \in SuccessCodes, fs \in [1..Len(ids) -> ItemFields] }
  \cup { HttpAnswer(c, Malformed, << >>) : c \in SuccessCodes }
  \cup FailureAnswers

\* The upstream calls, as the handler issues them.
WiqlCall(cfg, assigned_to, headers) ==
  [op |-> "wiql", method |-> "POST", base_url |-> cfg.base_url, project |-> cfg.project,
   assigned_to |-> assigned_to, headers |-> headers]

BatchCall(cfg, ids_string, fields, headers) ==
  [op |-> "workitems", method |-> "GET", base_url |-> cfg.base_url, project |-> cfg.project,
   ids |-> ids_string, fields |-> fields, headers |-> headers]

Comma == Str(<< "," >>)

\* ",".join(map(str, work_item_ids)) for a list of ints.
IdsString(ids) == Join([i \in 1..Len(ids) |-> DecStr(ids[i][2])], Comma)

\* [item["id"] for item in response.json()["workItems"]]
WiqlIds(json) == [i \in 1..Len(json.workItems) |-> json.workItems[i].id]

NoRequest == [endpoint |-> "none"]

Init ==
  /\ pc = "idle"
  /\ request = NoRequest
  /\ azure_config = NoConfig
  /\ inflight = NoCall
  /\ awaited = NoAnswer
  /\ response = NoResponse
  /\ work_item_ids = << >>
  /\ single_idx = 0
  /\ all_work_items = << >>
  /\ work_item = NoWorkItem
  /\ comments = << >>
  /\ child_ids = << >>

\* The call in flight is answered by ans: the await returns (or raises).
Answered(ans) == awaited' = [call |-> inflight, answer |-> ans]

\* The handler ends: the response goes to the client.
Respond(r) ==
  /\ response' = r
  /\ inflight' = NoCall
  /\ pc' = "done"

(***************************************************************************)
(* GET /work-items                                                         *)
(***************************************************************************)
\* simplified_items with the filter the unused iteration_filter of the
\* source spells out: the iteration path equal to the iteration asked for.
simplified_items_ExactMatch(work_items, iteration) ==
  LET item_iteration(item) == Get(item.fields.IterationPath, << >>)
      Kept(item) == ~(Truthy(iteration) /\ item_iteration(item) # iteration)
      kept == SelectSeq(work_items, Kept)
  IN  [i \in 1..Len(kept) |-> [id |-> kept[i].id, iteration |-> item_iteration(kept[i])]]

\* The loop over the batch answer: the items whose iteration path contains
\* the iteration asked for (all of them when it is empty), simplified.
simplified_items(work_items, iteration) ==
  LET item_iteration(item) == Get(item.fields.IterationPath, << >>)
      Kept(item) == ~(Truthy(iteration) /\ ~Contains(item_iteration(item), iteration))
      kept == SelectSeq(work_items, Kept)
  IN  [i \in 1..Len(kept) |-> [id |-> kept[i].id, iteration |-> item_iteration(kept[i])]]

\* Up to the WIQL query.
GetWorkItems ==
  /\ pc = "idle"
  /\ \E assigned_to \in Assignees, iteration \in IterationParams, authorization \in RequestAuthHeaders :
    LET cfg == get_azure_config_from_headers(None, None, None, authorization)
    IN  /\ request' = [endpoint |-> "/work-items", assigned_to |-> assigned_to,
                       iteration |-> iteration, authorization |-> authorization]
        /\ azure_config' = cfg
        /\ inflight' = WiqlCall(cfg, assigned_to, get_auth_header(cfg.access_token))
        /\ pc' = "work_items_wiql"
        /\ UNCHANGED << awaited, response, handlerLocals >>

\* WorkItemsWiqlAnswer without the early return for an empty list of IDs: the
\* batch fetch is issued for whatever the WIQL query found.
WorkItemsWiqlAnswer_NoEmptyCheck ==
  /\ pc = "work_items_wiql"
  /\ \E ans \in WiqlAnswers :
    LET e == raise_for_status(ans)
    IN  /\ Answered(ans)
        /\ IF e # NoException THEN
             Respond(EndpointError(e)) /\ UNCHANGED work_item_ids
           ELSE IF ans.json = Malformed THEN
             Respond(EndpointError(KeyError)) /\ UNCHANGED work_item_ids
           ELSE
             /\ work_item_ids' = WiqlIds(ans.json)
             /\ inflight' = BatchCall(azure_config, IdsString(work_item_ids'), None,
                                      get_auth_header(azure_config.access_token))
             /\ pc' = "work_items_details"
             /\ UNCHANGED response
        /\ UNCHANGED << request, azure_config, single_idx, all_work_items, work_item,
                        comments, child_ids >>

\* From the WIQL answer to the batch fetch, or to the response.
WorkItemsWiqlAnswer ==
  /\ pc = "work_items_wiql"
  /\ \E ans \in WiqlAnswers :
    LET e == raise_for_status(ans)
    IN  /\ Answered(ans)
        /\ IF e # NoException THEN
             Respond(EndpointError(e)) /\ UNCHANGED work_item_ids
           ELSE IF ans.json = Malformed THEN
             Respond(EndpointError(KeyError)) /\ UNCHANGED work_item_ids
           ELSE IF WiqlIds(ans.json) = << >> THEN
             Respond(Returned([work_items |-> << >>, count |-> 0])) /\ UNCHANGED work_item_ids
           ELSE
             /\ work_item_ids' = WiqlIds(ans.json)
             /\ inflight' = BatchCall(azure_config, IdsString(work_item_ids'), None,
                                      get_auth_header(azure_config.access_token))
             /\ pc' = "work_items_details"
             /\ UNCHANGED response
        /\ UNCHANGED << request, azure_config, single_idx, all_work_items, work_item,
                        comments, child_ids >>

\* From the batch answer to the response.
WorkItemsDetailsAnswer ==
  /\ pc = "work_items_details"
  /\ \E ans \in BatchAnswers(work_item_ids) :
    LET e == raise_for_status(ans)
    IN  /\ Answered(ans)
        /\ IF e # NoException THEN Respond(EndpointError(e))
           ELSE IF ans.json = Malformed THEN Respond(EndpointError(KeyError))
           ELSE IF \E i \in 1..Len(ans.json.value) : ans.json.value[i].fields = NoFields
             THEN Respond(EndpointError(KeyError))
           ELSE LET items == simplified_items(ans.json.value, request.iteration)
                IN  Respond(Returned([work_items |-> items, count |-> Len(items),
                                      filters |-> [assigned_to |-> request.assigned_to,
                                                   iteration |-> request.iteration]]))
        /\ UNCHANGED << request, azure_config, handlerLocals >>

(***************************************************************************)
(* GET /my-iterations                                                      *)
(***************************************************************************)
\* The set of the truthy iteration paths of the items.
iterations(work_items) ==
  { p \in { Get(work_items[i].fields.IterationPath, None) : i \in 1..Len(work_items) } : Truthy(p) }

\* The entry of one iteration path in the response.
IterationEntry(iteration) ==
  [path |-> iteration,
   name |-> IF Contains(iteration, Backslash)
            THEN LET parts == Split(iteration, Backslash) IN parts[Len(parts)]
            ELSE iteration,
   is_active |-> Contains(iteration, Active)]

\* Up to the WIQL query.
GetMyIterations ==
  /\ pc = "idle"
  /\ \E assigned_to \in Assignees, authorization \in RequestAuthHeaders :
    LET cfg == get_azure_config_from_headers(None, None, None, authorization)
    IN  /\ request' = [endpoint |-> "/my-iterations", assigned_to |-> assigned_to,
                       authorization |-> authorization]
        /\ azure_config' = cfg
        /\ inflight' = WiqlCall(cfg, assigned_to, get_auth_header(cfg.access_token))
        /\ pc' = "my_iterations_wiql"
        /\ UNCHANGED << awaited, response, handlerLocals >>

\* From the WIQL answer to the batch fetch, or to the response.
MyIterationsWiqlAnswer ==
  /\ pc = "my_iterations_wiql"
  /\ \E ans \in WiqlAnswers :
    LET e == raise_for_status(ans)
    IN  /\ Answered(ans)
        /\ IF e # NoException THEN
             Respond(EndpointError(e)) /\ UNCHANGED work_item_ids
           ELSE IF ans.json = Malformed THEN
             Respond(EndpointError(KeyError)) /\ UNCHANGED work_item_ids
           ELSE IF WiqlIds(ans.json) = << >> THEN
             Respond(Returned([iterations |-> << >>, count |-> 0])) /\ UNCHANGED work_item_ids
           ELSE
             /\ work_item_ids' = WiqlIds(ans.json)
             /\ inflight' = BatchCall(azure_config, IdsString(work_item_ids'),
                                      Str(<< "S","y","s","t","e","m",".","I","t","e","r","a","t",
                                             "i","o","n","P","a","t","h" >>),
                                      get_auth_header(azure_config.access_token))
             /\ pc' = "my_iterations_details"
             /\ UNCHANGED response
        /\ UNCHANGED << request, azure_config, single_idx, all_work_items, work_item,
                        comments, child_ids >>

\* From the batch answer to the response.
MyIterationsDetailsAnswer ==
  /\ pc = "my_iterations_details"
  /\ \E ans \in BatchAnswers(work_item_ids) :
    LET e == raise_for_status(ans)
    IN  /\ Answered(ans)
        /\ IF e # NoException THEN Respond(EndpointError(e))
           ELSE IF ans.json = Malformed THEN Respond(EndpointError(KeyError))
           ELSE IF \E i \in 1..Len(ans.json.value) : ans.json.value[i].fields = NoFields
             THEN Respond(EndpointError(KeyError))
           ELSE LET sorted_iterations == Sorted(iterations(ans.json.value))
                IN  Respond(Returned(
                      [iterations |-> [i \in 1..Len(sorted_iterations) |->
                                         IterationEntry(sorted_iterations[i])],
                       count |-> Len(sorted_iterations)]))
        /\ UNCHANGED << request, azure_config, handlerLocals >>

(***************************************************************************)
(* GET /work-item-details                                                  *)
(***************************************************************************)
\* Longest work_item_id query parameter.
MaxIdStrLen == 3

\* The characters of a work_item_id parameter: two digits and the comma.
WorkItemIdChars == { 49, 50, 44 }

\* The work_item_id parameters: every string of these characters, and two
\* with spaces around the IDs.
WorkItemIdParams ==
  UNION { [1..k -> WorkItemIdChars] : k \in 0..MaxIdStrLen }
  \cup { Str(<< " ","1"," " >>), Str(<< "2"," ",","," ","1" >>) }

\* [id.strip() for id in work_item_id.split(',')]
ParseIds(work_item_id) ==
  LET parts == Split(work_item_id, Comma)
  IN  [i \in 1..Len(parts) |-> Strip(parts[i])]

HierarchyForward == "System.LinkTypes.Hierarchy-Forward"
HierarchyReverse == "System.LinkTypes.Hierarchy-Reverse"
Related == "System.LinkTypes.Related"

WorkItemsSep == Str(<< "/","w","o","r","k","I","t","e","m","s","/" >>)

\* A "relations" key that is missing from a work item.
MissingList == << [missing |-> TRUE] >>
GetList(v, default) == IF v = MissingList THEN default ELSE v

\* URLs of related work items: of items 3 and 4, one with two /workItems/
\* parts, one with none.
Url3 == Str(<< "u" >>) \o WorkItemsSep \o Str(<< "3" >>)
Url4 == Str(<< "u" >>) \o WorkItemsSep \o Str(<< "4" >>)
Url34 == Str(<< "u" >>) \o WorkItemsSep \o Str(<< "3" >>) \o WorkItemsSep \o Str(<< "4" >>)
UrlOther == Str(<< "u","/","4" >>)

Div == Str(<< "<","d","i","v",">" >>)
EndDiv == Str(<< "<","/","d","i","v",">" >>)
Br == Str(<< "<","b","r",">" >>)
Nbsp == Str(<< "&","n","b","s","p",";" >>)
Newline == << 10 >>
Space == << 32 >>

\* The "fields" of a work item fetched alone: without and with the two HTML
\* texts.
PlainFields == [Description |-> Missing, AcceptanceCriteria |-> Missing]
HtmlFields ==
  [Description |-> Div \o Str(<< "a" >>) \o Br \o EndDiv,
   AcceptanceCriteria |-> Str(<< "a" >>) \o Nbsp \o Str(<< "b" >>)]

\* The work items the upstream holds under an ID, as "fields" and
\* "relations": no relation at all, relations that are not forward
\* hierarchy links, forward links with one and with two /workItems/ parts,
\* forward links without one, and an item without "fields".
WorkItemBodies ==
  { [fields |-> PlainFields, relations |-> MissingList],
    [fields |-> HtmlFields, relations |-> << >>],
    [fields |-> PlainFields, relations |-> << [rel |-> Related, url |-> Url3] >>],
    [fields |-> HtmlFields,
     relations |-> << [rel |-> HierarchyReverse, url |-> Url4],
                      [rel |-> HierarchyForward, url |-> Url34] >>],
    [fields |-> PlainFields,
     relations |-> << [rel |-> HierarchyForward, url |-> Url4], [rel |-> Related, url |-> Url3],
                      [rel |-> HierarchyForward, url |-> Url3] >>],
    [fields |-> HtmlFields,
     relations |-> << [rel |-> HierarchyForward, url |-> UrlOther],
                      [rel |-> HierarchyForward, url |-> Missing] >>],
    [fields |-> NoFields, relations |-> << >>] }

\* Failures of the calls of /work-item-details: a 404 and a transport error.
SideFailures == { HttpAnswer(404, Malformed, ErrText), TransportError }

\* The answers to the fetch of the work item single_id: the item (only an ID
\* of decimal digits names one), a body that does not parse, a failure.
WorkItemAnswers(single_id) ==
  (IF IsDigits(single_id)
   THEN { HttpAnswer(200, [id |-> PyInt(DecInt(single_id)), fields |-> b.fields,
                           relations |-> b.relations], << >>) : b \in WorkItemBodies }
   ELSE {})
  \cup { HttpAnswer(200, Malformed, << >>), HttpAnswer(500, Malformed, ErrText) }
  \cup SideFailures

\* The answers to the comments fetch: a list of comments (the second has no
\* "id"), a body that does not parse, a failure.
CommentLists ==
  { << >>,
    << [id |-> PyInt(1), text |-> Str(<< "c" >>)] >>,
    << [id |-> PyInt(1), text |-> Str(<< "c" >>)], [missing |-> TRUE] >> }

CommentsAnswers ==
  { HttpAnswer(200, [comments |-> cs], << >>) : cs \in CommentLists }
  \cup { HttpAnswer(201, [comments |-> << [id |-> PyInt(1), text |-> Str(<< "c" >>)] >>], << >>),
         HttpAnswer(200, Malformed, << >>) }
  \cup SideFailures

\* The "fields" of the children in a batch answer.
ChildFields ==
  { [Description |-> Missing], [Description |-> Br \o Str(<< "c" >>) \o Nbsp], NoFields }

\* The answers to the batch fetch of the children: one child per ID when all
\* are decimal, a body that does not parse, a failure.
ChildrenAnswers(ids) ==
  (IF \A i \in 1..Len(ids) : IsDigits(ids[i])
   THEN { HttpAnswer(c, [value |-> [i \in 1..Len(ids) |->
                                      [id |-> PyInt(DecInt(ids[i])), fields |-> f]]], << >>) :
            c \in SuccessCodes, f \in ChildFields }
   ELSE {})
  \cup { HttpAnswer(200, Malformed, << >>) }
  \cup SideFailures

WorkItemCall(cfg, single_id, headers) ==
  [op |-> "workitem", method |-> "GET", base_url |-> cfg.base_url, project |-> cfg.project,
   id |-> single_id, headers |-> headers]

CommentsCall(cfg, single_id, headers) ==
  [op |-> "comments", method |-> "GET", base_url |-> cfg.base_url, project |-> cfg.project,
   id |-> single_id, headers |-> headers]

\* The comprehension over comments_data.get("comments", []) raises KeyError
\* when a comment has no "id" or "text"; the body that does not parse raises
\* in comments_response.json().
CommentsRaise(json) ==
  \/ json = Malformed
  \/ \E i \in 1..Len(json.comments) : json.comments[i] = [missing |-> TRUE]

ShapeComments(json) ==
  [i \in 1..Len(json.comments) |-> [id |-> json.comments[i].id, text |-> json.comments[i].text]]

\* ChildIds without the test of relation.get("rel"): every relation with a
\* /workItems/ URL counts as a child.
RECURSIVE ChildIds_AnyRelation(_)
ChildIds_AnyRelation(relations) ==
  IF relations = << >> THEN << >>
  ELSE LET relation == relations[1]
           child_url == Get(relation.url, << >>)
           parts == Split(child_url, WorkItemsSep)
       IN  (IF Contains(child_url, WorkItemsSep) THEN << parts[Len(parts)] >> ELSE << >>)
           \o ChildIds_AnyRelation(Tail(relations))

\* The loop over the relations: the last part of the URL split at
\* "/workItems/", for each forward-hierarchy relation whose URL has one.
RECURSIVE ChildIds(_)
ChildIds(relations) ==
  IF relations = << >> THEN << >>
  ELSE LET relation == relations[1]
           child_url == Get(relation.url, << >>)
           parts == Split(child_url, WorkItemsSep)
       IN  (IF relation.rel = HierarchyForward /\ Contains(child_url, WorkItemsSep)
            THEN << parts[Len(parts)] >> ELSE << >>)
           \o ChildIds(Tail(relations))

\* HtmlCleanup with the newlines of the text turned into spaces before <br>
\* becomes a newline.
HtmlCleanup_NewlinesFirst(text) ==
  Replace(Replace(Replace(Replace(Replace(text, Newline, Space), Div, << >>), EndDiv, << >>),
                  Br, Newline), Nbsp, Space)

\* The four replacements applied to description and acceptance criteria.
HtmlCleanup(text) ==
  Replace(Replace(Replace(Replace(text, Div, << >>), EndDiv, << >>), Br, Newline), Nbsp, Space)

\* The three replacements applied to the description of a child.
ChildCleanup(text) == Replace(Replace(Replace(text, Div, << >>), EndDiv, << >>), Br, Newline)

\* The loop over children_data.get("value", []).
ShapeChildren(json) ==
  [i \in 1..Len(json.value) |->
     [id |-> json.value[i].id,
      description |-> IF Truthy(Get(json.value[i].fields.Description, None))
                      THEN ChildCleanup(json.value[i].fields.Description)
                      ELSE None]]

\* work_item_detail
DetailRecord(item, item_comments, child_items) ==
  LET description == Get(item.fields.Description, << >>)
      acceptance_criteria == Get(item.fields.AcceptanceCriteria, << >>)
  IN  [id |-> item.id,
       description |-> IF Truthy(description) THEN HtmlCleanup(description) ELSE description,
       acceptance_criteria |-> IF Truthy(acceptance_criteria)
                               THEN HtmlCleanup(acceptance_criteria) ELSE acceptance_criteria,
       comments |-> item_comments,
       child_work_items |-> child_items,
       child_count |-> Len(child_items)]

FailedPrefix == Str(<< "F","a","i","l","e","d"," ","t","o"," ","f","e","t","c","h"," ",
                       "d","e","t","a","i","l","s",":"," " >>)

\* The record the inner except clause appends for single_id.
ErrorRecord(single_id, e) == [id |-> single_id, error |-> FailedPrefix \o ExcStr(e)]

\* DetailsResult without the single-ID case: always the list.
DetailsResult_AlwaysList(ids, items) == Returned([work_items |-> items, count |-> Len(items)])

\* The value returned after the loop: the only record, or the list.
DetailsResult(ids, items) ==
  IF Len(ids) = 1 THEN Returned(items[1])
  ELSE Returned([work_items |-> items, count |-> Len(items)])

\* EndOfPass without the inner try: an exception in a pass leaves the loop
\* for the outer except clause and the request fails.
EndOfPass_Aborts(rec) ==
  IF "error" \in DOMAIN rec
  THEN /\ Respond(HTTPException(500, InternalErrorPrefix \o rec.error))
       /\ UNCHANGED << single_idx, all_work_items, work_item, comments, child_ids >>
  ELSE /\ all_work_items' = Append(all_work_items, rec)
       /\ work_item' = NoWorkItem
       /\ comments' = << >>
       /\ child_ids' = << >>
       /\ inflight' = NoCall
       /\ pc' = "details_loop"
       /\ UNCHANGED << response, single_idx >>

\* The end of one pass of the loop: rec is appended and control is back at
\* the head of the for loop.  The locals of the pass are dead from here on
\* (each is assigned again before it is read).
EndOfPass(rec) ==
  /\ all_work_items' = Append(all_work_items, rec)
  /\ work_item' = NoWorkItem
  /\ comments' = << >>
  /\ child_ids' = << >>
  /\ inflight' = NoCall
  /\ pc' = "details_loop"
  /\ UNCHANGED << response, single_idx >>

\* Up to the fetch of the first ID.
GetWorkItemDetails ==
  /\ pc = "idle"
  /\ \E work_item_id \in WorkItemIdParams, authorization \in RequestAuthHeaders :
    LET cfg == get_azure_config_from_headers(None, None, None, authorization)
        ids == ParseIds(work_item_id)
    IN  /\ request' = [endpoint |-> "/work-item-details", work_item_id |-> work_item_id,
                       authorization |-> authorization]
        /\ azure_config' = cfg
        /\ work_item_ids' = ids
        /\ single_idx' = 1
        /\ all_work_items' = << >>
        /\ inflight' = WorkItemCall(cfg, ids[1], get_auth_header(cfg.access_token))
        /\ pc' = "details_item"
        /\ UNCHANGED << awaited, response, work_item, comments, child_ids >>

\* From the answer for single_id to its comments fetch, or to the end of the
\* pass when the fetch failed or the item has no "fields".
DetailsItemAnswer ==
  /\ pc = "details_item"
  /\ \E ans \in WorkItemAnswers(work_item_ids[single_idx]) :
    LET single_id == work_item_ids[single_idx]
        e == raise_for_status(ans)
    IN  /\ Answered(ans)
        /\ IF e # NoException THEN EndOfPass(ErrorRecord(single_id, e))
           ELSE IF ans.json = Malformed THEN EndOfPass(ErrorRecord(single_id, KeyError))
           ELSE IF ans.json.fields = NoFields THEN EndOfPass(ErrorRecord(single_id, KeyError))
           ELSE /\ work_item' = ans.json
                /\ inflight' = CommentsCall(azure_config, single_id,
                                            get_auth_header(azure_config.access_token))
                /\ pc' = "details_comments"
                /\ UNCHANGED << response, single_idx, all_work_items, comments, child_ids >>
        /\ UNCHANGED << request, azure_config, work_item_ids >>

\* DetailsCommentsAnswer with raise_for_status() on the comments response, as
\* on the response of the item: a non-2xx answer fails the pass and every 2xx
\* answer is read.
DetailsCommentsAnswer_RaisesForStatus ==
  /\ pc = "details_comments"
  /\ \E ans \in CommentsAnswers :
    LET single_id == work_item_ids[single_idx]
        e == raise_for_status(ans)
        shaped == IF e = NoException /\ ~CommentsRaise(ans.json)
                  THEN ShapeComments(ans.json) ELSE << >>
        ids == ChildIds(GetList(work_item.relations, << >>))
    IN  /\ Answered(ans)
        /\ IF e # NoException THEN EndOfPass(ErrorRecord(single_id, e))
           ELSE IF CommentsRaise(ans.json)
             THEN EndOfPass(ErrorRecord(single_id, KeyError))
           ELSE IF ids = << >> THEN EndOfPass(DetailRecord(work_item, shaped, << >>))
           ELSE /\ comments' = shaped
                /\ child_ids' = ids
                /\ inflight' = BatchCall(azure_config, Join(ids, Comma), None,
                                         get_auth_header(azure_config.access_token))
                /\ pc' = "details_children"
                /\ UNCHANGED << response, single_idx, all_work_items, work_item >>
        /\ UNCHANGED << request, azure_config, work_item_ids >>

\* From the comments answer to the children fetch, or to the end of the pass
\* when there is no child or the comments raised.
DetailsCommentsAnswer ==
  /\ pc = "details_comments"
  /\ \E ans \in CommentsAnswers :
    LET single_id == work_item_ids[single_idx]
        shaped == IF ans.status_code = 200 THEN ShapeComments(ans.json) ELSE << >>
        ids == ChildIds(GetList(work_item.relations, << >>))
    IN  /\ Answered(ans)
        /\ IF ans.kind = "error" THEN EndOfPass(ErrorRecord(single_id, RequestError))
           ELSE IF ans.status_code = 200 /\ CommentsRaise(ans.json)
             THEN EndOfPass(ErrorRecord(single_id, KeyError))
           ELSE IF ids = << >> THEN EndOfPass(DetailRecord(work_item, shaped, << >>))
           ELSE /\ comments' = shaped
                /\ child_ids' = ids
                /\ inflight' = BatchCall(azure_config, Join(ids, Comma), None,
                                         get_auth_header(azure_config.access_token))
                /\ pc' = "details_children"
                /\ UNCHANGED << response, single_idx, all_work_items, work_item >>
        /\ UNCHANGED << request, azure_config, work_item_ids >>

\* The head of the for loop: the fetch of the next ID is issued (the response
\* objects of the pass before are dead), or the result is returned after the
\* last ID.
DetailsLoop ==
  /\ pc = "details_loop"
  /\ IF single_idx < Len(work_item_ids)
     THEN /\ single_idx' = single_idx + 1
          /\ inflight' = WorkItemCall(azure_config, work_item_ids[single_idx + 1],
                                      get_auth_header(azure_config.access_token))
          /\ awaited' = NoAnswer
          /\ pc' = "details_item"
          /\ UNCHANGED response
     ELSE /\ Respond(DetailsResult(work_item_ids, all_work_items))
          /\ UNCHANGED << awaited, single_idx >>
  /\ UNCHANGED << request, azure_config, work_item_ids, all_work_items, work_item,
                  comments, child_ids >>

\* From the children answer to the end of the pass.
DetailsChildrenAnswer ==
  /\ pc = "details_children"
  /\ \E ans \in ChildrenAnswers(child_ids) :
    LET single_id == work_item_ids[single_idx]
    IN  /\ Answered(ans)
        /\ IF ans.kind = "error" THEN EndOfPass(ErrorRecord(single_id, RequestError))
           ELSE IF ans.status_code # 200 THEN EndOfPass(DetailRecord(work_item, comments, << >>))
           ELSE IF ans.json = Malformed THEN EndOfPass(ErrorRecord(single_id, KeyError))
           ELSE IF \E i \in 1..Len(ans.json.value) : ans.json.value[i].fields = NoFields
             THEN EndOfPass(ErrorRecord(single_id, KeyError))
           ELSE EndOfPass(DetailRecord(work_item, comments, ShapeChildren(ans.json)))
        /\ UNCHANGED << request, azure_config, work_item_ids >>

(***************************************************************************)
(* POST /test-connection                                                   *)
(***************************************************************************)
HttpScheme ==
  Str(<< "h","t","t","p",":","/","/" >>)
HttpsScheme ==
  Str(<< "h","t","t","p","s",":","/","/" >>)
SizeLimit ==
  Str(<< "s","i","z","e"," ","l","i","m","i","t" >>)

\* The detail of the 400 answered for an upstream 401: a heading and three hints.
PatHeading ==
  Str(<< "I","n","v","a","l","i","d"," ","P","e","r","s","o","n","a","l"," ","A","c","c","e",
          "s","s"," ","T","o","k","e","n"," ","(","P","A","T",")"," ","o","r"," ","i","n","s",
          "u","f","f","i","c","i","e","n","t"," ","p","e","r","m","i","s","s","i","o","n","s",
          "."," ","P","l","e","a","s","e"," ","c","h","e","c","k",":","\n" >>)
PatHint1 ==
  Str(<< "1","."," ","Y","o","u","r"," ","P","A","T"," ","i","s"," ","n","o","t"," ","e","x",
          "p","i","r","e","d","\n" >>)
PatHint2 ==
  Str(<< "2","."," ","Y","o","u","r"," ","P","A","T"," ","h","a","s"," ","'","P","r","o","j",
          "e","c","t"," ","a","n","d"," ","T","e","a","m"," ","(","r","e","a","d",")","'"," ",
          "p","e","r","m","i","s","s","i","o","n","s","\n" >>)
PatHint3 ==
  Str(<< "3","."," ","Y","o","u"," ","h","a","v","e"," ","a","c","c","e","s","s"," ","t","o",
          " ","t","h","e"," ","o","r","g","a","n","i","z","a","t","i","o","n"," ","a","n","d",
          " ","p","r","o","j","e","c","t" >>)

\* The detail of the 400 answered for an upstream 404.
NotFoundDetail ==
  Str(<< "P","r","o","j","e","c","t"," ","o","r"," ","o","r","g","a","n","i","z","a","t","i",
          "o","n"," ","n","o","t"," ","f","o","u","n","d","."," ","P","l","e","a","s","e"," ",
          "v","e","r","i","f","y"," ","t","h","e"," ","o","r","g","a","n","i","z","a","t","i",
          "o","n"," ","n","a","m","e"," ","a","n","d"," ","p","r","o","j","e","c","t"," ","n",
          "a","m","e"," ","a","r","e"," ","c","o","r","r","e","c","t","." >>)
ConnectionFailedPrefix ==
  Str(<< "C","o","n","n","e","c","t","i","o","n"," ","f","a","i","l","e","d",":"," " >>)
TestUser ==
  Str(<< "t","e","s","t","@","e","x","a","m","p","l","e",".","c","o","m" >>)

\* The settings in the body of the request: tokens (one empty, one not ASCII)
\* and base URLs without and with a scheme.
SettingsTokens == { << >>, Str(<< "a" >>), Str(<< "e'" >>) }
SettingsBaseUrls == { Str(<< "h" >>), HttpScheme \o Str(<< "h" >>), HttpsScheme \o Str(<< "h" >>) }

\* The texts of the failure answers to the probe.
ProbeTexts == { ErrText, Str(<< "a"," " >>) \o SizeLimit, Str(<< "s","i","z","e" >>) }

\* The answers to the probe query.
ProbeAnswers ==
  { HttpAnswer(c, Malformed, << >>) : c \in SuccessCodes }
  \cup { HttpAnswer(c, Malformed, t) : c \in FailureCodes, t \in ProbeTexts }
  \cup {TransportError}

\* The body returned when the probe counts as a success.
Success(message) == Returned([status |-> "success", message |-> message])

\* ProbeOutcome with the except clause of the GET endpoints: an upstream
\* failure keeps its status.
ProbeOutcome_KeepsStatus(ans) ==
  LET e == raise_for_status(ans)
  IN  IF e = NoException THEN Success("Connection successful")
      ELSE EndpointError(e)

\* The outcome of the probe: the return after raise_for_status() and the two
\* except clauses of test_connection.
ProbeOutcome(ans) ==
  LET e == raise_for_status(ans)
  IN  IF e = NoException THEN Success("Connection successful")
      ELSE IF e.type = "HTTPStatusError" THEN
        IF e.status_code = 400 /\ Contains(e.text, SizeLimit)
          THEN Success("Connection successful (large dataset detected)")
        ELSE IF e.status_code = 401
          THEN HTTPException(400, PatHeading \o PatHint1 \o PatHint2 \o PatHint3)
        ELSE IF e.status_code = 404 THEN HTTPException(400, NotFoundDetail)
        ELSE HTTPException(400, ApiErrorPrefix \o e.text)
      ELSE HTTPException(400, ConnectionFailedPrefix \o ExcStr(e))

\* Up to the probe query: the base URL gets a scheme, the credential is
\* built from the token of the body.
TestConnection ==
  /\ pc = "idle"
  /\ \E baseUrl \in SettingsBaseUrls, accessToken \in SettingsTokens :
    LET settings == [organization |-> Str(<< "o" >>), project |-> Str(<< "p" >>),
                     baseUrl |-> baseUrl, accessToken |-> accessToken]
        base_url == IF StartsWith(settings.baseUrl, HttpScheme)
                       \/ StartsWith(settings.baseUrl, HttpsScheme)
                    THEN settings.baseUrl
                    ELSE HttpsScheme \o settings.baseUrl
    IN  /\ request' = [endpoint |-> "/test-connection", settings |-> settings]
        /\ inflight' = WiqlCall([base_url |-> base_url, project |-> settings.project],
                                TestUser, get_auth_header(settings.accessToken))
        /\ pc' = "test_connection_probe"
        /\ UNCHANGED << azure_config, awaited, response, handlerLocals >>

\* From the answer to the probe to the response.
TestConnectionAnswer ==
  /\ pc = "test_connection_probe"
  /\ \E ans \in ProbeAnswers :
       /\ Answered(ans)
       /\ Respond(ProbeOutcome(ans))
  /\ UNCHANGED << request, azure_config, handlerLocals >>

Next ==
  \/ GetWorkItems
  \/ WorkItemsWiqlAnswer
  \/ WorkItemsDetailsAnswer
  \/ GetWorkItemDetails
  \/ DetailsItemAnswer
  \/ DetailsCommentsAnswer
  \/ DetailsChildrenAnswer
  \/ DetailsLoop
  \/ GetMyIterations
  \/ MyIterationsWiqlAnswer
  \/ MyIterationsDetailsAnswer
  \/ TestConnection
  \/ TestConnectionAnswer

Spec == Init /\ [][Next]_vars

(***************************************************************************)
(* The HTML cleanup on its own                                             *)
(***************************************************************************)
\* Most pieces put together into one text.
MaxPieces == 3

\* Pieces of HTML text: the four substrings the cleanup replaces, the parts
\* they fall into, and plain characters.
HtmlPieces ==
  { Div, EndDiv, Br, Nbsp, Newline, Space, Str(<< "a" >>), Str(<< "<" >>),
    Str(<< "<","d" >>), Str(<< "i","v",">" >>), Str(<< "/","d","i","v",">" >>),
    Str(<< "<","b" >>), Str(<< "r",">" >>), Str(<< "&","n","b" >>), Str(<< "s","p",";" >>) }

RECURSIVE Concat(_)
Concat(pieces) == IF pieces = << >> THEN << >> ELSE pieces[1] \o Concat(Tail(pieces))

\* The texts of a description or of acceptance criteria.
HtmlTexts == { Concat(ps) : ps \in UNION { [1..k -> HtmlPieces] : k \in 0..MaxPieces } }

\* if description: description = description.replace(...)...
CleanField(text) == IF Truthy(text) THEN HtmlCleanup(text) ELSE text

InitCleanup ==
  /\ pc = "cleanup_call"
  /\ request \in [ description : HtmlTexts ]
  /\ azure_config = NoConfig
  /\ inflight = NoCall
  /\ awaited = NoAnswer
  /\ response = NoResponse
  /\ work_item_ids = << >>
  /\ single_idx = 0
  /\ all_work_items = << >>
  /\ work_item = NoWorkItem
  /\ comments = << >>
  /\ child_ids = << >>

\* The cleanup applied to the text as it came.
CleanOnce ==
  /\ pc = "cleanup_call"
  /\ all_work_items' = << [description |-> CleanField(request.description)] >>
  /\ pc' = "cleaned_once"
  /\ UNCHANGED << request, azure_config, inflight, awaited, response, work_item_ids,
                  single_idx, work_item, comments, child_ids >>

\* The cleanup applied to its own result.
CleanAgain ==
  /\ pc = "cleaned_once"
  /\ all_work_items' = Append(all_work_items,
                              [description |-> CleanField(all_work_items[1].description)])
  /\ pc' = "cleaned_twice"
  /\ UNCHANGED << request, azure_config, inflight, awaited, response, work_item_ids,
                  single_idx, work_item, comments, child_ids >>

NextCleanup == CleanOnce \/ CleanAgain

SpecCleanup == InitCleanup /\ [][NextCleanup]_vars

(***************************************************************************)
(* Properties                                                              *)
(***************************************************************************)
\* sub occurs in s as a run of consecutive characters.
Occurs(sub, s) == \E k \in 0..(Len(s) - Len(sub)) : SubSeq(s, k + 1, k + Len(sub)) = sub

\* The header value `Basic ` followed by the base64 of ":" + T.
HeaderOf(T) == BasicPrefix \o b64encode(Utf8Encode(Colon \o T))

\* The payload of a Basic header, decoded as far as it decodes.
PayloadBytes_(authorization) == b64decode(SubSeq(authorization, 7, Len(authorization)))
PayloadText(authorization) ==
  IF PayloadBytes_(authorization) = Raise THEN Raise
  ELSE Utf8Decode(PayloadBytes_(authorization))

\* C3 (as amended): for every non-empty token T, the header `Basic ` +
\* base64(":" + T) resolves to an access_token equal to exactly T; for the
\* empty token the same header resolves to the static default token.
C3_NonEmptyTokenExtracted ==
  pc = "config_returned" =>
    \A T \in Tokens :
      request.authorization = HeaderOf(T) =>
        azure_config.access_token = (IF T = << >> THEN AZURE_ACCESS_TOKEN ELSE T)

\* C3 witness: a two-byte token (U+00E9) came back unchanged.
C3_Witness ==
  /\ pc = "config_returned"
  /\ request.authorization = HeaderOf(<< 233 >>)
  /\ azure_config.access_token = << 233 >>

\* C3 as stated: for every token T, the empty one included, the header
\* `Basic ` + base64(":" + T) resolves to an access_token equal to T.
C3_EveryTokenExtracted ==
  pc = "config_returned" =>
    \A T \in Tokens :
      request.authorization = HeaderOf(T) => azure_config.access_token = T

\* The header is missing, has another scheme, has a payload that is not
\* base64 or not UTF-8, or decodes to a string that does not start with ":".
HeaderUnusable(authorization) ==
  \/ authorization = None
  \/ ~(Len(authorization) >= 6 /\ SubSeq(authorization, 1, 6) = BasicPrefix)
  \/ PayloadText(authorization) = Raise
  \/ PayloadText(authorization) = << >>
  \/ PayloadText(authorization)[1] # 58

\* C4: for a header that is missing, not `Basic `, undecodable as base64 or
\* UTF-8, or decoded to a string without a leading ":", the resolver returns
\* a config whose access_token is the static default token.
C4_FallsBackToDefault ==
  (pc = "config_returned" /\ HeaderUnusable(request.authorization)) =>
    azure_config.access_token = AZURE_ACCESS_TOKEN

\* C4 witness: a Basic header whose payload is base64 but not UTF-8 resolved
\* to the default token.
C4_Witness ==
  /\ pc = "config_returned"
  /\ request.authorization # None
  /\ StartsWith(request.authorization, BasicPrefix)
  /\ PayloadBytes_(request.authorization) # Raise
  /\ PayloadText(request.authorization) = Raise
  /\ azure_config.access_token = AZURE_ACCESS_TOKEN

(***************************************************************************)
(* /work-item-details: failures of single IDs                              *)
(***************************************************************************)
IsErrorRecord(rec) == DOMAIN rec = {"id", "error"}

\* The answer that ended the pass made the pass fail: a transport error, a
\* non-2xx answer to the fetch of the item, or a 200 whose payload is
\* malformed (no body, no "fields", a comment without "id").
PassFailed ==
  LET a == awaited.answer
      op == awaited.call.op
  IN  \/ a.kind = "error"
      \/ op = "workitem" /\ ~(a.status_code >= 200 /\ a.status_code <= 299)
      \/ op = "workitem" /\ a.json = Malformed
      \/ op = "workitem" /\ a.json # Malformed /\ a.json.fields = NoFields
      \/ op \in {"comments", "workitems"} /\ a.status_code = 200 /\ a.json = Malformed
      \/ op = "comments" /\ a.status_code = 200 /\ a.json # Malformed
           /\ \E i \in 1..Len(a.json.comments) : "id" \notin DOMAIN a.json.comments[i]
      \/ op = "workitems" /\ a.status_code = 200 /\ a.json # Malformed
           /\ \E i \in 1..Len(a.json.value) : a.json.value[i].fields = NoFields

\* rec is the record of the requested ID id: the error record of id, or a
\* detail record of the work item with that number.
RecordOf(rec, id) ==
  IF IsErrorRecord(rec) THEN rec.id = id
  ELSE IsDigits(id) /\ rec.id = PyInt(DecInt(id))

C1_Step ==
  (request'.endpoint = "/work-item-details" /\ Len(work_item_ids') >= 2) =>
    /\ (pc # "details_loop" /\ pc' = "details_loop") =>
         /\ Len(all_work_items') = single_idx'
         /\ SubSeq(all_work_items', 1, single_idx' - 1) = all_work_items
         /\ RecordOf(all_work_items'[single_idx'], work_item_ids'[single_idx'])
         /\ IsErrorRecord(all_work_items'[single_idx']) <=> PassFailed'
         /\ response' = NoResponse
    /\ ~(pc # "details_loop" /\ pc' = "details_loop") => all_work_items' = all_work_items
    /\ pc' = "done" =>
         /\ ~response'.error
         /\ response'.body.work_items = all_work_items'
         /\ Len(all_work_items') = Len(work_item_ids')
         /\ \A i \in 1..Len(work_item_ids') : RecordOf(all_work_items'[i], work_item_ids'[i])

\* C1: in /work-item-details with two or more IDs, a pass that fails appends
\* the {id, error} record of its ID at the ID's position and the loop goes
\* on; the records appended before stay as they are; the response is a
\* normal result with one record per requested ID, in request order.
C1_FailureIsolated == [][C1_Step]_vars

\* C1 witness: two IDs, the first failed and the second was fetched.
C1_Witness ==
  /\ pc = "done"
  /\ request.endpoint = "/work-item-details"
  /\ Len(work_item_ids) = 2
  /\ ~response.error
  /\ IsErrorRecord(response.body.work_items[1])
  /\ ~IsErrorRecord(response.body.work_items[2])

(***************************************************************************)
(* Upstream status codes                                                   *)
(***************************************************************************)
\* The answer that ended the request came from the WIQL query or from a
\* fetch of work item details (not of comments or children).
QueryOrDetailAnswer ==
  \/ awaited.call.op \in {"wiql", "workitem"}
  \/ awaited.call.op = "workitems" /\ request.endpoint \in {"/work-items", "/my-iterations"}

\* C2 as stated: in /work-items, /work-item-details and /my-iterations, when
\* the WIQL query or the detail fetch answers a non-2xx status S, the
\* response is an error response with status S.
C2_UpstreamStatusSurfaced ==
  (/\ pc = "done"
   /\ request.endpoint \in {"/work-items", "/work-item-details", "/my-iterations"}
   /\ QueryOrDetailAnswer
   /\ awaited.answer.kind = "response"
   /\ ~(awaited.answer.status_code >= 200 /\ awaited.answer.status_code <= 299))
  => (response.error /\ response.status_code = awaited.answer.status_code)

(***************************************************************************)
(* /test-connection                                                        *)
(***************************************************************************)
\* C5 as stated: the probe of /test-connection carries the credential of the
\* accessToken of the body, `Basic ` + base64(":" + accessToken), whatever
\* the token is.
C5_BodyTokenSent ==
  pc = "test_connection_probe" =>
    inflight.headers.Authorization = HeaderOf(request.settings.accessToken)

Succeeded == ~response.error /\ response.status_code = 200 /\ response.body.status = "success"
Refused == response.error /\ response.status_code = 400

NotFoundWords == Str(<< "n","o","t"," ","f","o","u","n","d" >>)

\* C8: the probe outcome maps to the response: 2xx to success, 400 with
\* "size limit" in the body to success, 401 to a 400 listing the three PAT
\* hints, 404 to a 400 "not found", every other non-2xx answer and every
\* transport failure to a 400; the response is never anything but a success
\* or a 400.
C8_ProbeOutcomeMapped ==
  (pc = "done" /\ request.endpoint = "/test-connection") =>
    LET a == awaited.answer
        ok == a.kind = "response" /\ a.status_code >= 200 /\ a.status_code <= 299
        size_limit == a.kind = "response" /\ a.status_code = 400 /\ Occurs(SizeLimit, a.text)
    IN  /\ Succeeded \/ Refused
        /\ ok => Succeeded
        /\ size_limit => Succeeded
        /\ (a.kind = "response" /\ a.status_code = 401) =>
             /\ Refused
             /\ Occurs(PatHint1, response.detail)
             /\ Occurs(PatHint2, response.detail)
             /\ Occurs(PatHint3, response.detail)
        /\ (a.kind = "response" /\ a.status_code = 404) =>
             Refused /\ Occurs(NotFoundWords, response.detail)
        /\ (~ok /\ ~size_limit) => Refused

\* C8 witness: a 400 answer with "size limit" in its body counted as success.
C8_Witness ==
  /\ pc = "done"
  /\ request.endpoint = "/test-connection"
  /\ awaited.answer.status_code = 400
  /\ Occurs(SizeLimit, awaited.answer.text)
  /\ Succeeded

(***************************************************************************)
(* /work-items and /my-iterations                                          *)
(***************************************************************************)
\* The detail records the upstream returned for the request (none when the
\* WIQL query found no ID).
UpstreamValue == IF awaited.call.op = "workitems" THEN awaited.answer.json.value ELSE << >>

PathOf(item) == IF item.fields.IterationPath = Missing THEN << >> ELSE item.fields.IterationPath

\* C6: a successful /work-items returns exactly the upstream detail records,
\* in upstream order, whose iteration path (empty when absent) contains the
\* iteration asked for, all of them when the iteration is empty; count is
\* the length of the list.
C6_FilteredByIteration ==
  (pc = "done" /\ request.endpoint = "/work-items" /\ ~response.error) =>
    LET Asked(item) == request.iteration = << >> \/ Occurs(request.iteration, PathOf(item))
        expected == SelectSeq(UpstreamValue, Asked)
        got == response.body.work_items
    IN  /\ Len(got) = Len(expected)
        /\ \A i \in 1..Len(got) :
             got[i].id = expected[i].id /\ got[i].iteration = PathOf(expected[i])
        /\ response.body.count = Len(got)

\* C6 witness: an iteration was asked for; some records were kept, others
\* dropped.
C6_Witness ==
  /\ pc = "done"
  /\ request.endpoint = "/work-items"
  /\ ~response.error
  /\ request.iteration # << >>
  /\ Len(response.body.work_items) >= 1
  /\ Len(response.body.work_items) < Len(UpstreamValue)

\* s comes strictly before t in lexicographic order by code point.
LexBefore(s, t) ==
  \E k \in 0..Len(s) :
    /\ k <= Len(t)
    /\ SubSeq(s, 1, k) = SubSeq(t, 1, k)
    /\ \/ k = Len(s) /\ k < Len(t)
       \/ k < Len(s) /\ k < Len(t) /\ s[k + 1] < t[k + 1]

\* C9: a successful /my-iterations lists each distinct non-empty iteration
\* path of the fetched work items once, in strictly ascending lexicographic
\* order; count is the number of distinct paths.
C9_IterationsSortedDistinct ==
  (pc = "done" /\ request.endpoint = "/my-iterations" /\ ~response.error) =>
    LET paths == { PathOf(UpstreamValue[i]) : i \in 1..Len(UpstreamValue) } \ { << >> }
        got == response.body.iterations
    IN  /\ { got[i].path : i \in 1..Len(got) } = paths
        /\ \A i \in 1..Len(got) : \A j \in 1..Len(got) :
             i < j => LexBefore(got[i].path, got[j].path)
        /\ Len(got) = Cardinality(paths)
        /\ response.body.count = Cardinality(paths)

\* C9 witness: three work items with two distinct non-empty paths.
C9_Witness ==
  /\ pc = "done"
  /\ request.endpoint = "/my-iterations"
  /\ ~response.error
  /\ Len(UpstreamValue) = 3
  /\ Len(response.body.iterations) = 2

(***************************************************************************)
(* /work-item-details: the shape of the result and the children            *)
(***************************************************************************)
CommaCount(s) == Cardinality({ i \in 1..Len(s) : s[i] = 44 })

WithoutSpaces(s) == LET NotSpace(c) == c # 32 IN SelectSeq(s, NotSpace)

\* C7: /work-item-details returns a bare object whose id is the requested ID
\* for one ID, and {work_items, count} with count the number of requested
\* IDs for two or more, whether the fetches succeed or fail.
C7_BareOrList ==
  (pc = "done" /\ request.endpoint = "/work-item-details") =>
    LET asked == request.work_item_id
        body == response.body
    IN  /\ ~response.error
        /\ IF CommaCount(asked) = 0
           THEN /\ "id" \in DOMAIN body
                /\ "work_items" \notin DOMAIN body
                /\ \/ body.id = WithoutSpaces(asked)
                   \/ IsDigits(WithoutSpaces(asked)) /\ body.id = PyInt(DecInt(WithoutSpaces(asked)))
           ELSE /\ DOMAIN body = {"work_items", "count"}
                /\ body.count = CommaCount(asked) + 1
                /\ Len(body.work_items) = body.count

\* C7 witness: one ID with spaces around it, fetched.
C7_Witness ==
  /\ pc = "done"
  /\ request.endpoint = "/work-item-details"
  /\ request.work_item_id = << 32, 49, 32 >>
  /\ ~response.error
  /\ response.body.id = PyInt(1)

\* The part of url after its last "/workItems/".
LastSegment(url) ==
  LET hits == { k \in 1..(Len(url) - 10) : SubSeq(url, k, k + 10) = WorkItemsSep }
      last == CHOOSE k \in hits : \A j \in hits : j <= k
  IN  SubSeq(url, last + 11, Len(url))

\* The last segments of the URLs of the forward-hierarchy relations of item.
ForwardSegments(item) ==
  LET rels == IF item.relations = MissingList THEN << >> ELSE item.relations
      forward == { i \in 1..Len(rels) :
                     /\ rels[i].rel = HierarchyForward
                     /\ rels[i].url # Missing
                     /\ Occurs(WorkItemsSep, rels[i].url) }
  IN  { LastSegment(rels[i].url) : i \in forward }

\* The IDs asked for in a batch call.
RequestedIds(call) == LET parts == Split(call.ids, Comma) IN { parts[i] : i \in 1..Len(parts) }

C10_Step ==
  /\ (pc = "details_comments" /\ pc' = "details_children") =>
       /\ ForwardSegments(work_item) # {}
       /\ RequestedIds(inflight') = ForwardSegments(work_item)
  /\ (pc = "details_comments" /\ ForwardSegments(work_item) = {}) =>
       /\ pc' = "details_loop"
       /\ LET rec == all_work_items'[Len(all_work_items')]
          IN  ~IsErrorRecord(rec) => (rec.child_work_items = << >> /\ rec.child_count = 0)
  /\ (pc = "details_children" /\ ~IsErrorRecord(all_work_items'[Len(all_work_items')])) =>
       LET rec == all_work_items'[Len(all_work_items')]
       IN  /\ rec.child_count = Len(rec.child_work_items)
           /\ \A i \in 1..Len(rec.child_work_items) :
                \E seg \in ForwardSegments(work_item) :
                  IsDigits(seg) /\ rec.child_work_items[i].id = PyInt(DecInt(seg))

\* C10: the IDs of the child batch fetch are exactly the parts after the
\* last "/workItems/" of the URLs of the forward-hierarchy relations; a
\* relation of another type adds no child; without such a relation no child
\* fetch is issued and child_work_items is empty with child_count 0.
C10_OnlyForwardChildren == [][C10_Step]_vars

\* C10 witness: a reverse link and a forward link with two /workItems/
\* parts: the child fetch asks for the last part alone.
C10_Witness ==
  /\ pc = "details_children"
  /\ Len(work_item.relations) = 2
  /\ work_item.relations[1].rel = HierarchyReverse
  /\ inflight.ids = << 52 >>

(***************************************************************************)
(* /work-item-details: a comments fetch that answers another status        *)
(***************************************************************************)
\* The comments fetch has just answered with a status other than 200.
CommentsNot200 ==
  /\ pc = "details_comments"
  /\ awaited'.answer.kind = "response"
  /\ awaited'.answer.status_code # 200

C11_Step ==
  /\ CommentsNot200 =>
       \/ /\ pc' = "details_children"
          /\ comments' = << >>
          /\ work_item' = work_item
          /\ all_work_items' = all_work_items
       \/ /\ pc' = "details_loop"
          /\ all_work_items' = Append(all_work_items, DetailRecord(work_item, << >>, << >>))
          /\ ForwardSegments(work_item) = {}
  /\ (pc = "details_children" /\ ~IsErrorRecord(all_work_items'[Len(all_work_items')])) =>
       LET rec == all_work_items'[Len(all_work_items')]
       IN  rec = DetailRecord(work_item, comments, rec.child_work_items)

\* C11: when the comments fetch of an ID answers with a status other than
\* 200, the pass does not fail: the comments of the ID are the empty list,
\* and the record of the ID is the detail record the work item and its
\* children give with no comments (appended at once when the item has no
\* children, after the child fetch otherwise).
C11_CommentsFailureIgnored == [][C11_Step]_vars

\* C11 witness: the comments fetch answered 404 and the record of the ID is a
\* detail record with its cleaned description and no comments.
C11_Witness ==
  /\ pc = "details_loop"
  /\ awaited.call.op = "comments"
  /\ awaited.answer.status_code = 404
  /\ all_work_items # << >>
  /\ LET rec == all_work_items[Len(all_work_items)]
     IN  /\ ~IsErrorRecord(rec)
         /\ rec.comments = << >>
         /\ rec.description = << 97, 10 >>

(***************************************************************************)
(* The order of the upstream calls of one request                          *)
(***************************************************************************)
\* The step issues an upstream call.
Issued == inflight' # NoCall /\ pc' # pc

\* The step is the answer to the call that was in flight.
AnsweredNow ==
  /\ inflight # NoCall
  /\ "answer" \in DOMAIN awaited'
  /\ awaited'.call = inflight

Answered2xx ==
  /\ AnsweredNow
  /\ awaited'.answer.kind = "response"
  /\ awaited'.answer.status_code >= 200
  /\ awaited'.answer.status_code <= 299

C12_Step ==
  /\ inflight # NoCall => AnsweredNow
  /\ Issued =>
       LET op == inflight'.op
           endpoint == request'.endpoint
       IN  /\ inflight = NoCall \/ AnsweredNow
           /\ op = "wiql" => (pc = "idle" /\ inflight = NoCall)
           /\ (op = "workitems" /\ endpoint \in {"/work-items", "/my-iterations"}) =>
                /\ Answered2xx
                /\ inflight.op = "wiql"
                /\ awaited'.answer.json # Malformed
                /\ awaited'.answer.json.workItems # << >>
           /\ op = "workitem" =>
                /\ endpoint = "/work-item-details"
                /\ inflight = NoCall
                /\ Len(all_work_items) = single_idx' - 1
                /\ inflight'.id = work_item_ids'[single_idx']
           /\ op = "comments" =>
                /\ Answered2xx
                /\ inflight.op = "workitem"
                /\ inflight.id = inflight'.id
                /\ single_idx' = single_idx
           /\ (op = "workitems" /\ endpoint = "/work-item-details") =>
                /\ AnsweredNow
                /\ awaited'.answer.kind = "response"
                /\ inflight.op = "comments"
                /\ inflight.id = work_item_ids[single_idx]
                /\ single_idx' = single_idx

\* C12: within a request a call is issued only when no other call is in
\* flight or in the step that answers the one in flight; the batch fetch of
\* /work-items and /my-iterations follows a 2xx WIQL answer with a non-empty
\* list of IDs; in /work-item-details the comments fetch of an ID follows the
\* 2xx answer to the fetch of the same ID, the child fetch follows the answer
\* to its comments fetch, and the fetch of the next ID is issued with no call
\* in flight and the record of every earlier ID appended.
C12_CallsSequential == [][C12_Step]_vars

\* C12 witness: the child fetch of the second ID is in flight, after the
\* record of the first ID and the answer to the comments fetch of the second.
C12_Witness ==
  /\ pc = "details_children"
  /\ single_idx = 2
  /\ Len(all_work_items) = 1
  /\ awaited.call.op = "comments"
  /\ awaited.call.id = work_item_ids[2]
  /\ inflight.op = "workitems"

(***************************************************************************)
(* The HTML cleanup twice                                                  *)
(***************************************************************************)
\* None of the four substrings the cleanup replaces occurs in text.
TargetFree(text) ==
  /\ ~Occurs(Div, text)
  /\ ~Occurs(EndDiv, text)
  /\ ~Occurs(Br, text)
  /\ ~Occurs(Nbsp, text)

\* C13: for every text whose cleanup holds none of <div>, </div>, <br> and
\* &nbsp;, the cleanup of the cleanup is the cleanup.
C13_CleanupIdempotent ==
  (pc = "cleaned_twice" /\ TargetFree(all_work_items[1].description)) =>
    all_work_items[2].description = all_work_items[1].description

\* C13 witness: a text that the first pass changed, into a text free of the
\* four substrings with a newline and a space from <br> and &nbsp;, and that
\* the second pass left as it was.
C13_Witness ==
  /\ pc = "cleaned_twice"
  /\ request.description = Div \o Br \o Nbsp
  /\ all_work_items[1].description = << 10, 32 >>
  /\ all_work_items[2].description = << 10, 32 >>

====
